---------------------------- MODULE Spec2Model ----------------------------
(***************************************************************************)
(* A model of optiland's design-variable abstraction (optiland/variable.py) *)
(* and of its pupil distributions (optiland/distribution.py).               *)
(*                                                                         *)
(* Two specifications share the variables below:                           *)
(*   Spec      the Variable abstraction driven against a stub optic;       *)
(*   DistSpec  the distribution engine (added below the Variable part).    *)
(*                                                                         *)
(* Python values are modelled as follows.  None and "no value" are the     *)
(* empty tuple <<>>, a present value x is the one-element tuple <<x>>.     *)
(* Floats that the Variable code only passes through are small integers.   *)
(***************************************************************************)
EXTENDS Integers, Sequences, FiniteSets, TLC

VARIABLES
    optic,       \* the optic object: [surface_group |-> index into heap]
    heap,        \* the SurfaceGroup objects ever created, in creation order
    variables,   \* handle -> the Variable object bound to it (or Absent)
    last,        \* what the last operation was and what it returned/raised
    calls,       \* the optic mutator calls the last operation made, in order
    directs      \* number of operations the environment made on the optic

varVars == <<optic, heap, variables, last, calls, directs>>

----------------------------------------------------------------------------
(* Bounds of the model.                                                    *)

MaxGroups == 2     \* surface groups ever created (1 + replacements)
MaxDirect == 1     \* direct mutator calls and replacements by the environment

Surfaces == {0, 1}                 \* valid surface_number values of the stub
Coeffs == {0, 1}                   \* valid coeff_number values of the stub
Wavelengths == {5}                 \* wavelengths (opaque to the code)
Handles == {"v", "w"}              \* the program's references to Variables
UpdateVals == {1, 2}                \* values passed to update (stores start at 0)
DirectVals == {9}                  \* values only the environment writes

None == <<>>
Some(x) == <<x>>

----------------------------------------------------------------------------
(* The stub optic: the collaborator surface of spec section 6, with         *)
(* accessors that read back what the mutators wrote.                        *)

NewSurfaceGroup ==
    [radii     |-> [s \in Surfaces |-> 0],
     conic     |-> [s \in Surfaces |-> 0],
     thickness |-> [s \in Surfaces |-> 0],
     index     |-> [s \in Surfaces |-> 0],
     c         |-> [s \in Surfaces |-> [k \in Coeffs |-> 0]]]

\* optic.set_radius(value, surface_number) and its four siblings, as one
\* dispatcher on the call record [m, args]; writes go to the optic's
\* CURRENT surface group.
OpticApply(opt, hp, call) ==
    LET g == opt.surface_group
        a == call.args
    IN  CASE call.m = "set_radius" ->
                [hp EXCEPT ![g].radii[a[2]] = a[1]]
          [] call.m = "set_conic" ->
                [hp EXCEPT ![g].conic[a[2]] = a[1]]
          [] call.m = "set_thickness" ->
                [hp EXCEPT ![g].thickness[a[2]] = a[1]]
          [] call.m = "set_index" ->
                [hp EXCEPT ![g].index[a[2]] = a[1]]
          [] call.m = "set_asphere_coeff" ->
                [hp EXCEPT ![g].c[a[2]][a[3]] = a[1]]

RECURSIVE OpticApplyAll(_, _, _)
OpticApplyAll(opt, hp, cs) ==
    IF cs = <<>> THEN hp
    ELSE OpticApplyAll(opt, OpticApply(opt, hp, Head(cs)), Tail(cs))

\* optic.n(wavelength): one index per surface, of the current surface group.
optic_n(opt, hp, wavelength) == hp[opt.surface_group].index

\* surface_group.get_thickness(i): a tuple whose first element is the thickness.
get_thickness(sg, i) == <<sg.thickness[i]>>

\* The optic's own current value of a quantity.
OpticQuantity(opt, hp, kind, s, k) ==
    LET sg == hp[opt.surface_group]
    IN  CASE kind = "radius"        -> sg.radii[s]
          [] kind = "conic"         -> sg.conic[s]
          [] kind = "thickness"     -> sg.thickness[s]
          [] kind = "index"         -> sg.index[s]
          [] kind = "asphere_coeff" -> sg.c[s][k]

----------------------------------------------------------------------------
(* VariableBehavior and its five subclasses.                                *)
(* A constructor returns [ok |-> TRUE, obj |-> ...] or, when a required     *)
(* parameter is missing from the keywords, [ok |-> FALSE] (TypeError).      *)
(* update_value returns the optic mutator calls it makes, in order.         *)

Has(kw, key) == key \in DOMAIN kw

\* VariableBehavior.__init__: optic, _surfaces (the surface group the optic
\* holds NOW), surface_number.
VariableBehavior_init(cls, opt, surface_number) ==
    [cls |-> cls, surfaces |-> opt.surface_group,
     surface_number |-> surface_number]

SurfaceOnly_init(cls, opt, kw) ==
    IF Has(kw, "surface_number")
    THEN [ok |-> TRUE,
          obj |-> VariableBehavior_init(cls, opt, kw["surface_number"])]
    ELSE [ok |-> FALSE]

RadiusVariable_init(opt, kw) == SurfaceOnly_init("RadiusVariable", opt, kw)
ConicVariable_init(opt, kw) == SurfaceOnly_init("ConicVariable", opt, kw)
ThicknessVariable_init(opt, kw) == SurfaceOnly_init("ThicknessVariable", opt, kw)

\* A variant whose wavelength parameter has a default.
IndexVariable_init_defaulted(opt, kw) ==
    IF Has(kw, "surface_number")
    THEN [ok |-> TRUE,
          obj |-> [cls |-> "IndexVariable", surfaces |-> opt.surface_group,
                   surface_number |-> kw["surface_number"],
                   wavelength |-> IF Has(kw, "wavelength")
                                  THEN kw["wavelength"] ELSE 5]]
    ELSE [ok |-> FALSE]

IndexVariable_init(opt, kw) ==
    IF Has(kw, "surface_number") /\ Has(kw, "wavelength")
    THEN [ok |-> TRUE,
          obj |-> [cls |-> "IndexVariable", surfaces |-> opt.surface_group,
                   surface_number |-> kw["surface_number"],
                   wavelength |-> kw["wavelength"]]]
    ELSE [ok |-> FALSE]

AsphereCoeffVariable_init(opt, kw) ==
    IF Has(kw, "surface_number") /\ Has(kw, "coeff_number")
    THEN [ok |-> TRUE,
          obj |-> [cls |-> "AsphereCoeffVariable",
                   surfaces |-> opt.surface_group,
                   surface_number |-> kw["surface_number"],
                   coeff_number |-> kw["coeff_number"]]]
    ELSE [ok |-> FALSE]

RadiusVariable_get_value(b, opt, hp) == hp[b.surfaces].radii[b.surface_number]
ConicVariable_get_value(b, opt, hp) == hp[b.surfaces].conic[b.surface_number]
ThicknessVariable_get_value(b, opt, hp) ==
    get_thickness(hp[b.surfaces], b.surface_number)[1]
IndexVariable_get_value(b, opt, hp) ==
    optic_n(opt, hp, b.wavelength)[b.surface_number]
\* A variant with the two indices exchanged.
AsphereCoeffVariable_get_value_swapped(b, opt, hp) ==
    hp[b.surfaces].c[b.coeff_number][b.surface_number]

AsphereCoeffVariable_get_value(b, opt, hp) ==
    hp[b.surfaces].c[b.surface_number][b.coeff_number]

RadiusVariable_update_value(b, new_value) ==
    << [m |-> "set_radius", args |-> <<new_value, b.surface_number>>] >>
ConicVariable_update_value(b, new_value) ==
    << [m |-> "set_conic", args |-> <<new_value, b.surface_number>>] >>
ThicknessVariable_update_value(b, new_value) ==
    << [m |-> "set_thickness", args |-> <<new_value, b.surface_number>>] >>
IndexVariable_update_value(b, new_value) ==
    << [m |-> "set_index", args |-> <<new_value, b.surface_number>>] >>
AsphereCoeffVariable_update_value(b, new_value) ==
    << [m |-> "set_asphere_coeff",
        args |-> <<new_value, b.surface_number, b.coeff_number>>] >>

\* Dynamic dispatch on the behavior's class.
get_value(b, opt, hp) ==
    CASE b.cls = "RadiusVariable"       -> RadiusVariable_get_value(b, opt, hp)
      [] b.cls = "ConicVariable"        -> ConicVariable_get_value(b, opt, hp)
      [] b.cls = "ThicknessVariable"    -> ThicknessVariable_get_value(b, opt, hp)
      [] b.cls = "IndexVariable"        -> IndexVariable_get_value(b, opt, hp)
      [] b.cls = "AsphereCoeffVariable" -> AsphereCoeffVariable_get_value(b, opt, hp)

update_value(b, new_value) ==
    CASE b.cls = "RadiusVariable"       -> RadiusVariable_update_value(b, new_value)
      [] b.cls = "ConicVariable"        -> ConicVariable_update_value(b, new_value)
      [] b.cls = "ThicknessVariable"    -> ThicknessVariable_update_value(b, new_value)
      [] b.cls = "IndexVariable"        -> IndexVariable_update_value(b, new_value)
      [] b.cls = "AsphereCoeffVariable" -> AsphereCoeffVariable_update_value(b, new_value)

----------------------------------------------------------------------------
(* Variable.                                                                *)

allowed_attributes == {"surface_number", "coeff_number", "wavelength"}

VariableTypes == {"radius", "conic", "thickness", "index", "asphere_coeff"}

NullBehavior == [cls |-> "None"]

\* A variant that validates the type eagerly: an unknown type raises.
get_variable_behavior_eager(opt, type_name, kw) ==
    CASE type_name = "radius"        -> RadiusVariable_init(opt, kw)
      [] type_name = "conic"         -> ConicVariable_init(opt, kw)
      [] type_name = "thickness"     -> ThicknessVariable_init(opt, kw)
      [] type_name = "index"         -> IndexVariable_init(opt, kw)
      [] type_name = "asphere_coeff" -> AsphereCoeffVariable_init(opt, kw)
      [] OTHER                       -> [ok |-> FALSE]

\* Variable._get_variable_behavior: the type -> class table; every keyword
\* (whitelisted or not) is forwarded, the classes swallow what they do not
\* name through **kwargs.  An unknown type gives None.
get_variable_behavior(opt, type_name, kw) ==
    CASE type_name = "radius"        -> RadiusVariable_init(opt, kw)
      [] type_name = "conic"         -> ConicVariable_init(opt, kw)
      [] type_name = "thickness"     -> ThicknessVariable_init(opt, kw)
      [] type_name = "index"         -> IndexVariable_init(opt, kw)
      [] type_name = "asphere_coeff" -> AsphereCoeffVariable_init(opt, kw)
      [] OTHER                       -> [ok |-> TRUE, obj |-> NullBehavior]

\* A variant of the loop without the whitelist test.
SetAttributes_unchecked(kw) == DOMAIN kw

\* The keys of kwargs that the loop of Variable.__init__ sets as attributes.
SetAttributes(kw) == {key \in DOMAIN kw : key \in allowed_attributes}

\* The keys for which the loop prints "Warning: ... is not a recognized
\* attribute".
WarnedKeys(kw) == {key \in DOMAIN kw : key \notin allowed_attributes}

\* Variable.__init__: [ok, obj, warned].
Variable_init(opt, type_name, min_val, max_val, kw) ==
    LET b == get_variable_behavior(opt, type_name, kw)
    IN  IF b.ok
        THEN [ok |-> TRUE, warned |-> WarnedKeys(kw),
              obj |-> [type |-> type_name, min_val |-> min_val,
                       max_val |-> max_val, kwargs |-> kw,
                       attrs |-> [key \in SetAttributes(kw) |-> kw[key]],
                       variable_behavior |-> b.obj]]
        ELSE [ok |-> FALSE, warned |-> WarnedKeys(kw)]

\* "if self.variable_behavior:" (None is falsy, an object is truthy).
Truthy(b) == b.cls # "None"

\* Variable.value: [status, ret].
Variable_value(var, opt, hp) ==
    IF Truthy(var.variable_behavior)
    THEN [status |-> "ok",
          ret |-> <<Some(get_value(var.variable_behavior, opt, hp))>>]
    ELSE [status |-> "ValueError", ret |-> <<>>]

\* Variable.bounds.
Variable_bounds(var) == <<var.min_val, var.max_val>>

\* A variant that enforces the bounds by clamping new_value into them.
Variable_update_clamped(var, new_value) ==
    LET lo == IF var.min_val # None /\ new_value < var.min_val[1]
              THEN var.min_val[1] ELSE new_value
        cl == IF var.max_val # None /\ lo > var.max_val[1]
              THEN var.max_val[1] ELSE lo
    IN  IF Truthy(var.variable_behavior)
        THEN [status |-> "ok",
              calls |-> update_value(var.variable_behavior, cl)]
        ELSE [status |-> "ValueError", calls |-> <<>>]

\* Variable.update: [status, calls].
Variable_update(var, new_value) ==
    IF Truthy(var.variable_behavior)
    THEN [status |-> "ok",
          calls |-> update_value(var.variable_behavior, new_value)]
    ELSE [status |-> "ValueError", calls |-> <<>>]

----------------------------------------------------------------------------
(* The state machine of the Variable abstraction.                           *)

Absent == [type |-> "<absent>"]
Exists(h) == variables[h] # Absent

TypeNames == VariableTypes \cup {"bogus_type"}
\* How a caller may call the constructor: the (min_val, max_val) it gives
\* and the keywords it adds to the ones the type needs.
CallShapes ==
    {[bnd |-> <<None, None>>, extra |-> {}],
     [bnd |-> <<None, None>>, extra |-> {"foo"}],
     [bnd |-> <<Some(1), Some(1)>>, extra |-> {}]}

\* Keyword sets a caller may supply.
KeyValues(key) ==
    CASE key = "surface_number" -> Surfaces
      [] key = "coeff_number"   -> Coeffs
      [] key = "wavelength"     -> Wavelengths
      [] key = "foo"            -> {1}
Keys == {"surface_number", "coeff_number", "wavelength", "foo"}
KwargsOver(ks) == {kw \in [ks -> Surfaces \cup Coeffs \cup Wavelengths \cup {1}] :
                      \A key \in ks : kw[key] \in KeyValues(key)}

\* The keywords the type needs.
NeededKeys(type_name) ==
    CASE type_name = "index"         -> {"surface_number", "wavelength"}
      [] type_name = "asphere_coeff" -> {"surface_number", "coeff_number"}
      [] type_name = "bogus_type"    -> {}
      [] OTHER                       -> {"surface_number"}

\* last.arg: the arguments of the last operation.
NoArg == [none |-> TRUE]

VarInit ==
    /\ optic = [surface_group |-> 1]
    /\ heap = <<NewSurfaceGroup>>
    /\ variables = [h \in Handles |-> Absent]
    /\ last = [op |-> "init", var |-> "", arg |-> NoArg, status |-> "ok",
               ret |-> <<>>, warned |-> {}]
    /\ calls = <<>>
    /\ directs = 0

\* h = Variable(optic, type_name, min_val, max_val, **kw)
DoConstruct(h, type_name, bnd, kw) ==
    LET r == Variable_init(optic, type_name, bnd[1], bnd[2], kw)
    IN  /\ ~Exists(h)
        /\ variables' = [variables EXCEPT ![h] = IF r.ok THEN r.obj ELSE @]
        /\ last' = [op |-> "construct", var |-> h,
                    arg |-> [type_name |-> type_name, min_val |-> bnd[1],
                             max_val |-> bnd[2], kw |-> kw],
                    status |-> IF r.ok THEN "ok" ELSE "TypeError",
                    ret |-> <<>>, warned |-> r.warned]
        /\ calls' = <<>>
        /\ UNCHANGED <<optic, heap, directs>>

Construct ==
    \E type_name \in TypeNames, shape \in CallShapes :
        \E kw \in KwargsOver(NeededKeys(type_name) \cup shape.extra) :
            DoConstruct("v", type_name, shape.bnd, kw)

\* v = Variable(optic, type_name, **kw) where kw is what some recognized
\* type needs, less one keyword.
ConstructLacking ==
    \E type_name \in TypeNames, as_type \in VariableTypes :
        \E drop \in NeededKeys(as_type) :
            \E kw \in KwargsOver(NeededKeys(as_type) \ {drop}) :
                DoConstruct("v", type_name, <<None, None>>, kw)

\* The keywords of kw that are on the whitelist.
Recognized(kw) == [key \in DOMAIN kw \cap allowed_attributes |-> kw[key]]

\* w = Variable(optic, ...) with the arguments v was constructed with, less
\* the unrecognized keywords: a second Variable addressing v's quantity.
ConstructAgain ==
    /\ Exists("v")
    /\ DoConstruct("w", variables["v"].type,
                   <<variables["v"].min_val, variables["v"].max_val>>,
                   Recognized(variables["v"].kwargs))

\* h.value
ReadValue ==
    \E h \in Handles :
        /\ Exists(h)
        /\ LET r == Variable_value(variables[h], optic, heap)
           IN  last' = [op |-> "value", var |-> h, arg |-> NoArg,
                        status |-> r.status,
                        ret |-> r.ret, warned |-> {}]
        /\ calls' = <<>>
        /\ UNCHANGED <<optic, heap, variables, directs>>

\* h.bounds
ReadBounds ==
    \E h \in Handles :
        /\ Exists(h)
        /\ last' = [op |-> "bounds", var |-> h, arg |-> NoArg, status |-> "ok",
                    ret |-> Variable_bounds(variables[h]), warned |-> {}]
        /\ calls' = <<>>
        /\ UNCHANGED <<optic, heap, variables, directs>>

\* h.update(new_value)
Update ==
    \E h \in Handles, new_value \in UpdateVals :
        /\ Exists(h)
        /\ LET r == Variable_update(variables[h], new_value)
           IN  /\ last' = [op |-> "update", var |-> h,
                           arg |-> [new_value |-> new_value],
                           status |-> r.status, ret |-> <<>>, warned |-> {}]
               /\ calls' = r.calls
               /\ heap' = OpticApplyAll(optic, heap, r.calls)
        /\ UNCHANGED <<optic, variables, directs>>

\* The environment calls one of the optic's mutators directly.
DirectCalls ==
    {[m |-> m, args |-> <<d, s>>] :
        m \in {"set_radius", "set_conic", "set_thickness", "set_index"},
        d \in DirectVals, s \in Surfaces}
    \cup {[m |-> "set_asphere_coeff", args |-> <<d, s, k>>] :
            d \in DirectVals, s \in Surfaces, k \in Coeffs}

DirectSet ==
    \E call \in DirectCalls :
        /\ directs < MaxDirect
        /\ heap' = OpticApply(optic, heap, call)
        /\ last' = [op |-> "direct", var |-> "", arg |-> NoArg, status |-> "ok",
                    ret |-> <<>>, warned |-> {}]
        /\ calls' = <<call>>
        /\ directs' = directs + 1
        /\ UNCHANGED <<optic, variables>>

\* The environment replaces the optic's surface group by a new object.
ReplaceSurfaceGroup ==
    /\ directs < MaxDirect
    /\ Len(heap) < MaxGroups
    /\ heap' = Append(heap, NewSurfaceGroup)
    /\ optic' = [optic EXCEPT !.surface_group = Len(heap) + 1]
    /\ last' = [op |-> "replace", var |-> "", arg |-> NoArg, status |-> "ok",
                ret |-> <<>>, warned |-> {}]
    /\ calls' = <<>>
    /\ directs' = directs + 1
    /\ UNCHANGED variables

----------------------------------------------------------------------------
(* Numbers of the distribution engine.                                      *)
(* A coordinate is kept exact and symbolic:                                 *)
(*   [t |-> "rat", n, d]            the rational n/d                        *)
(*   [t |-> "polar", n, d, f, k, m] (n/d) * f(2*pi*k/m), f in {cos, sin}    *)
(*   [t |-> "rand", f, src, ri, ti] sqrt(r) * f(theta), r and theta the     *)
(*                                  ri-th and ti-th draws of generator src  *)

Rat(n, d) == [t |-> "rat", n |-> n, d |-> d]
Polar(r, f, k, m) == [t |-> "polar", n |-> r.n, d |-> r.d, f |-> f,
                      k |-> k, m |-> m]

\* np.zeros(num)
zeros(num) == [i \in 1..num |-> Rat(0, 1)]

\* np.linspace(start, stop, num) for integers start, stop: num evenly spaced
\* samples with both endpoints; a single sample is start.
linspace(start, stop, num) ==
    IF num = 1 THEN <<Rat(start, 1)>>
    ELSE [i \in 1..num |->
            Rat(start * (num - 1) + (i - 1) * (stop - start), num - 1)]

\* np.linspace(0, 2 * np.pi, num_theta + 1)[:-1], as fractions k/m of a turn.
turn_fractions(num_theta) == [j \in 1..num_theta |-> <<j - 1, num_theta>>]

\* A variant with a strict comparison.
InUnitDisk_strict(x, y) ==
    x.n * x.n * y.d * y.d + y.n * y.n * x.d * x.d < x.d * x.d * y.d * y.d

\* x**2 + y**2 <= 1 for two rationals.
InUnitDisk(x, y) ==
    x.n * x.n * y.d * y.d + y.n * y.n * x.d * x.d <= x.d * x.d * y.d * y.d

RECURSIVE Concat(_)
\* np.concatenate of a sequence of arrays.
Concat(arrays) ==
    IF arrays = <<>> THEN <<>> ELSE Head(arrays) \o Concat(Tail(arrays))

RECURSIVE Masked(_, _, _)
\* a[mask]: the elements of the flattened array whose mask entry is True.
Masked(a, mask, i) ==
    IF i > Len(a) THEN <<>>
    ELSE (IF mask[i] THEN <<a[i]>> ELSE <<>>) \o Masked(a, mask, i + 1)

----------------------------------------------------------------------------
(* The distribution classes.  An instance is a record with field cls, the   *)
(* constructor's attributes, and x, y once generate_points has set them:    *)
(* pts is None until then, afterwards Some([x |-> ..., y |-> ...]).         *)

WithPoints(self, x, y) == [self EXCEPT !.pts = Some([x |-> x, y |-> y])]

LineXDistribution_init(positive_only) ==
    [cls |-> "LineXDistribution", positive_only |-> positive_only,
     pts |-> None]
LineYDistribution_init(positive_only) ==
    [cls |-> "LineYDistribution", positive_only |-> positive_only,
     pts |-> None]
\* np.random.default_rng(seed): a generator is its seed and how many draws
\* it has made.
\* it has made; without a seed it is seeded from fresh OS entropy.
default_rng(seed, entropy) ==
    [src |-> IF seed = None THEN <<"entropy", entropy>> ELSE <<"seed", seed[1]>>,
     pos |-> 0]
RandomDistribution_init(seed, entropy) ==
    [cls |-> "RandomDistribution", rng |-> default_rng(seed, entropy),
     pts |-> None]
UniformDistribution_init == [cls |-> "UniformDistribution", pts |-> None]
HexagonalDistribution_init == [cls |-> "HexagonalDistribution", pts |-> None]
CrossDistribution_init == [cls |-> "CrossDistribution", pts |-> None]
RingDistribution_init == [cls |-> "RingDistribution", pts |-> None]
GaussianQuadrature_init(is_symmetric) ==
    [cls |-> "GaussianQuadrature", is_symmetric |-> is_symmetric,
     pts |-> None]

LineX_generate_points(self, num_points) ==
    WithPoints(self,
               IF self.positive_only THEN linspace(0, 1, num_points)
               ELSE linspace(-1, 1, num_points),
               zeros(num_points))

LineY_generate_points(self, num_points) ==
    WithPoints(self,
               zeros(num_points),
               IF self.positive_only THEN linspace(0, 1, num_points)
               ELSE linspace(-1, 1, num_points))

\* r = rng.uniform(size=n) takes the next n draws, theta the n after them.
\* A variant that draws from the start of the stream at every call.
Random_generate_points_restarted(self, num_points) ==
    LET pt(f) == [i \in 1..num_points |->
                    [t |-> "rand", f |-> f, src |-> self.rng.src,
                     ri |-> i, ti |-> num_points + i]]
    IN  [WithPoints(self, pt("cos"), pt("sin"))
            EXCEPT !.rng.pos = 2 * num_points]

Random_generate_points(self, num_points) ==
    LET p == self.rng.pos
        pt(f) == [i \in 1..num_points |->
                    [t |-> "rand", f |-> f, src |-> self.rng.src,
                     ri |-> p + i, ti |-> p + num_points + i]]
    IN  [WithPoints(self, pt("cos"), pt("sin"))
            EXCEPT !.rng.pos = p + 2 * num_points]

\* meshgrid(x, x) flattened in row-major order: entry (i, j) has x = x[j],
\* y = x[i]; the mask r2 <= 1 selects in that order.
Uniform_generate_points(self, num_points) ==
    LET x0 == linspace(-1, 1, num_points)
        cnt == num_points * num_points
        row(e) == ((e - 1) \div num_points) + 1
        col(e) == ((e - 1) % num_points) + 1
        gx == [e \in 1..cnt |-> x0[col(e)]]
        gy == [e \in 1..cnt |-> x0[row(e)]]
        mask == [e \in 1..cnt |-> InUnitDisk(gx[e], gy[e])]
    IN  WithPoints(self, Masked(gx, mask, 1), Masked(gy, mask, 1))

\* A variant whose ring i has 6 * i + 1 angular samples, the last one
\* repeating the first at 2 * pi.
Hexagonal_generate_points_closed(self, num_rings) ==
    LET r == linspace(0, 1, num_rings + 1)
        ring(i, f) == LET th == turn_fractions(6 * i) \o << <<6 * i, 6 * i>> >>
                      IN  [j \in 1..(6 * i + 1) |->
                             Polar(r[i + 1], f, th[j][1], th[j][2])]
    IN  WithPoints(self,
            zeros(1) \o Concat([i \in 1..num_rings |-> ring(i, "cos")]),
            zeros(1) \o Concat([i \in 1..num_rings |-> ring(i, "sin")]))

Hexagonal_generate_points(self, num_rings) ==
    LET r == linspace(0, 1, num_rings + 1)
        ring(i, f) == LET th == turn_fractions(6 * i)
                      IN  [j \in 1..(6 * i) |->
                             Polar(r[i + 1], f, th[j][1], th[j][2])]
    IN  WithPoints(self,
            zeros(1) \o Concat([i \in 1..num_rings |-> ring(i, "cos")]),
            zeros(1) \o Concat([i \in 1..num_rings |-> ring(i, "sin")]))

Cross_generate_points(self, num_points) ==
    LET x1 == zeros(num_points)
        x2 == linspace(-1, 1, num_points)
        y1 == linspace(-1, 1, num_points)
        y2 == zeros(num_points)
    IN  WithPoints(self, x1 \o x2, y1 \o y2)

Ring_generate_points(self, num_points) ==
    LET th == turn_fractions(num_points)
        pt(f) == [j \in 1..num_points |->
                    Polar(Rat(1, 1), f, th[j][1], th[j][2])]
    IN  WithPoints(self, pt("cos"), pt("sin"))

\* radius_dict, in units of 1e-5.
radius_dict ==
    [r \in 1..6 |->
        CASE r = 1 -> <<70711>>
          [] r = 2 -> <<45970, 88807>>
          [] r = 3 -> <<33571, 70711, 94196>>
          [] r = 4 -> <<26350, 57446, 81853, 96466>>
          [] r = 5 -> <<21659, 48038, 70711, 87706, 97626>>
          [] r = 6 -> <<18375, 41158, 61700, 78696, 91138, 98300>>]

\* A variant that only rejects ring counts above 6.
get_radius_lenient(num_rings) ==
    IF num_rings > 6 THEN [ok |-> FALSE]
    ELSE IF num_rings = 0 THEN [ok |-> TRUE, radius |-> <<>>]
    ELSE [ok |-> TRUE, radius |-> radius_dict[num_rings]]

\* GaussianQuadrature._get_radius: [ok, radius]; not ok is ValueError.
get_radius(num_rings) ==
    IF num_rings \notin DOMAIN radius_dict THEN [ok |-> FALSE]
    ELSE [ok |-> TRUE, radius |-> radius_dict[num_rings]]

\* theta: the angles -1.04719755, 0.0, 1.04719755 are -1/6, 0, 1/6 of a turn
\* (to the 8 decimals written in the source).
GQ_theta(is_symmetric) ==
    IF is_symmetric THEN << <<0, 1>> >>
    ELSE << <<-1, 6>>, <<0, 1>>, <<1, 6>> >>

\* GaussianQuadrature.generate_points: [ok, self]; np.outer(radius,
\* f(theta)).flatten() runs over theta fastest.
GQ_generate_points(self, num_rings) ==
    LET rr == get_radius(num_rings)
    IN  IF ~rr.ok THEN [ok |-> FALSE, self |-> self]
        ELSE LET theta == GQ_theta(self.is_symmetric)
                 nt == Len(theta)
                 cnt == Len(rr.radius) * nt
                 ri(e) == ((e - 1) \div nt) + 1
                 ti(e) == ((e - 1) % nt) + 1
                 pt(f) == [e \in 1..cnt |->
                            Polar(Rat(rr.radius[ri(e)], 100000), f,
                                  theta[ti(e)][1], theta[ti(e)][2])]
             IN  [ok |-> TRUE,
                  self |-> WithPoints(self, pt("cos"), pt("sin"))]

\* Dynamic dispatch of generate_points: [ok, self].
generate_points(self, n) ==
    CASE self.cls = "LineXDistribution" ->
            [ok |-> TRUE, self |-> LineX_generate_points(self, n)]
      [] self.cls = "LineYDistribution" ->
            [ok |-> TRUE, self |-> LineY_generate_points(self, n)]
      [] self.cls = "RandomDistribution" ->
            [ok |-> TRUE, self |-> Random_generate_points(self, n)]
      [] self.cls = "UniformDistribution" ->
            [ok |-> TRUE, self |-> Uniform_generate_points(self, n)]
      [] self.cls = "HexagonalDistribution" ->
            [ok |-> TRUE, self |-> Hexagonal_generate_points(self, n)]
      [] self.cls = "CrossDistribution" ->
            [ok |-> TRUE, self |-> Cross_generate_points(self, n)]
      [] self.cls = "RingDistribution" ->
            [ok |-> TRUE, self |-> Ring_generate_points(self, n)]
      [] self.cls = "GaussianQuadrature" -> GQ_generate_points(self, n)

\* a - b: exact on rational numbers, symbolic otherwise.
Minus(a, b) ==
    IF a.t = "rat" /\ b.t = "rat"
    THEN Rat(a.n * b.d - b.n * a.d, a.d * b.d)
    ELSE [t |-> "sub", a |-> a, b |-> b]

\* self.x, self.y: the attributes exist once generate_points has set them.
\* [status, ret].
BaseDistribution_x(self) ==
    IF self.pts = None THEN [status |-> "AttributeError", ret |-> <<>>]
    ELSE [status |-> "ok", ret |-> <<self.pts[1].x>>]
BaseDistribution_y(self) ==
    IF self.pts = None THEN [status |-> "AttributeError", ret |-> <<>>]
    ELSE [status |-> "ok", ret |-> <<self.pts[1].y>>]

\* A variant with the operands exchanged.
BaseDistribution_dx_reversed(self) ==
    LET x == BaseDistribution_x(self)
    IN  IF x.status # "ok" THEN x
        ELSE IF Len(x.ret[1]) < 2 THEN [status |-> "IndexError", ret |-> <<>>]
        ELSE [status |-> "ok", ret |-> <<Minus(x.ret[1][1], x.ret[1][2])>>]

\* BaseDistribution.dx: self.x[1] - self.x[0] (indices from 0 in the code,
\* from 1 here).
BaseDistribution_dx(self) ==
    LET x == BaseDistribution_x(self)
    IN  IF x.status # "ok" THEN x
        ELSE IF Len(x.ret[1]) < 2 THEN [status |-> "IndexError", ret |-> <<>>]
        ELSE [status |-> "ok", ret |-> <<Minus(x.ret[1][2], x.ret[1][1])>>]

\* BaseDistribution.dy: self.y[1] - self.y[0].
BaseDistribution_dy(self) ==
    LET y == BaseDistribution_y(self)
    IN  IF y.status # "ok" THEN y
        ELSE IF Len(y.ret[1]) < 2 THEN [status |-> "IndexError", ret |-> <<>>]
        ELSE [status |-> "ok", ret |-> <<Minus(y.ret[1][2], y.ret[1][1])>>]

\* weights_dict as written in get_weights, in units of 1e-6.
WeightsTable ==
    [r \in 1..6 |->
        CASE r = 1 -> <<500000>>
          [] r = 2 -> <<250000, 250000>>
          [] r = 3 -> <<138890, 222220, 138890>>
          [] r = 4 -> <<86960, 163040, 163040, 86960>>
          [] r = 5 -> <<59231, 119660, 142220, 119660, 59231>>
          [] r = 6 -> <<42830, 90190, 116980, 116980, 90190, 42830>>]

\* A variant in which the dict is built once and shared by all calls.
weights_dict_shared(prev) == IF prev = None THEN WeightsTable ELSE prev

\* The dict that the name weights_dict is bound to in a call of get_weights:
\* a dict literal evaluated in the call, whatever an earlier call left (prev).
weights_dict_of_call(prev) == WeightsTable

\* weights *= factor, in place.
Scaled(weights, factor) == [i \in 1..Len(weights) |-> weights[i] * factor]

\* GaussianQuadrature.get_weights: [ok, ret, dict]; ret is the returned
\* array, dict the weights_dict of this call after the in-place scaling
\* (weights aliases weights_dict[num_rings]).
get_weights(self, num_rings, prev) ==
    LET wd == weights_dict_of_call(prev)
    IN  IF num_rings \notin DOMAIN wd
        THEN [ok |-> FALSE, ret |-> <<>>, dict |-> wd]
        ELSE LET weights == Scaled(wd[num_rings],
                                   IF self.is_symmetric THEN 6 ELSE 2)
             IN  [ok |-> TRUE, ret |-> weights,
                  dict |-> [wd EXCEPT ![num_rings] = weights]]

\* create_distribution: [ok, obj]; not ok is ValueError.  entropy is what an
\* unseeded generator would be seeded with.
DistributionKeys ==
    {"line_x", "line_y", "positive_line_x", "positive_line_y", "random",
     "uniform", "hexapolar", "cross", "ring"}

\* A variant whose "positive_line_y" entry was copied from "positive_line_x".
create_distribution_copied(distribution_type, entropy) ==
    IF distribution_type \notin DistributionKeys THEN [ok |-> FALSE]
    ELSE [ok |-> TRUE,
          obj |-> CASE distribution_type = "line_x" ->
                          LineXDistribution_init(FALSE)
                    [] distribution_type = "line_y" ->
                          LineYDistribution_init(FALSE)
                    [] distribution_type = "positive_line_x" ->
                          LineXDistribution_init(TRUE)
                    [] distribution_type = "positive_line_y" ->
                          LineXDistribution_init(TRUE)
                    [] distribution_type = "random" ->
                          RandomDistribution_init(None, entropy)
                    [] distribution_type = "uniform" ->
                          UniformDistribution_init
                    [] distribution_type = "hexapolar" ->
                          HexagonalDistribution_init
                    [] distribution_type = "cross" ->
                          CrossDistribution_init
                    [] distribution_type = "ring" ->
                          RingDistribution_init]

create_distribution(distribution_type, entropy) ==
    IF distribution_type \notin DistributionKeys THEN [ok |-> FALSE]
    ELSE [ok |-> TRUE,
          obj |-> CASE distribution_type = "line_x" ->
                          LineXDistribution_init(FALSE)
                    [] distribution_type = "line_y" ->
                          LineYDistribution_init(FALSE)
                    [] distribution_type = "positive_line_x" ->
                          LineXDistribution_init(TRUE)
                    [] distribution_type = "positive_line_y" ->
                          LineYDistribution_init(TRUE)
                    [] distribution_type = "random" ->
                          RandomDistribution_init(None, entropy)
                    [] distribution_type = "uniform" ->
                          UniformDistribution_init
                    [] distribution_type = "hexapolar" ->
                          HexagonalDistribution_init
                    [] distribution_type = "cross" ->
                          CrossDistribution_init
                    [] distribution_type = "ring" ->
                          RingDistribution_init]

----------------------------------------------------------------------------
(* The state machine of the distribution engine.                            *)

VARIABLES
    objs,          \* the distribution instances, in order of creation
    dlast,         \* the last operation: what, on which instance, outcome
    weights_dict,  \* the weights_dict of the latest get_weights call
    hist           \* the operations performed so far, oldest first (bounded)

distVars == <<objs, dlast, weights_dict, hist>>

MaxN == 7          \* arguments of generate_points / get_weights are 0..MaxN
MaxOps == 3        \* operations per run

Args == 0..MaxN
Entropy == {1, 2}
OtherKeys == {"nonexistent", "gaussian_quadrature"}

\* What hist keeps of an operation.
Entry(d) == [op |-> d.op, key |-> d.key, id |-> d.id, arg |-> d.arg,
             status |-> d.status]

DistInit ==
    /\ objs = <<>>
    /\ dlast = [op |-> "init", key |-> "", id |-> 0, arg |-> 0,
                status |-> "ok", ret |-> <<>>]
    /\ weights_dict = None
    /\ hist = <<>>

\* d = create_distribution(key)
CreateDistribution ==
    \E key \in DistributionKeys \cup OtherKeys, entropy \in Entropy :
        LET r == create_distribution(key, entropy)
        IN  /\ Len(hist) < MaxOps
            /\ key # "random" => entropy = 1
            /\ objs' = IF r.ok THEN Append(objs, r.obj) ELSE objs
            /\ dlast' = [op |-> "create", key |-> key,
                         id |-> IF r.ok THEN Len(objs) + 1 ELSE 0,
                         arg |-> 0,
                         status |-> IF r.ok THEN "ok" ELSE "ValueError",
                         ret |-> <<>>]
            /\ hist' = Append(hist, Entry(dlast'))
            /\ UNCHANGED weights_dict

\* d = GaussianQuadrature(is_symmetric)
NewGaussianQuadrature ==
    \E is_symmetric \in BOOLEAN :
        /\ Len(hist) < MaxOps
        /\ objs' = Append(objs, GaussianQuadrature_init(is_symmetric))
        /\ dlast' = [op |-> "new", key |-> "GaussianQuadrature",
                     id |-> Len(objs) + 1, arg |-> 0, status |-> "ok",
                     ret |-> <<>>]
        /\ hist' = Append(hist, Entry(dlast'))
        /\ UNCHANGED weights_dict

\* objs[id].generate_points(n)
GeneratePoints ==
    \E id \in 1..Len(objs), n \in Args :
        LET r == generate_points(objs[id], n)
        IN  /\ Len(hist) < MaxOps
            /\ objs' = [objs EXCEPT ![id] = r.self]
            /\ dlast' = [op |-> "generate_points", key |-> "", id |-> id,
                         arg |-> n,
                         status |-> IF r.ok THEN "ok" ELSE "ValueError",
                         ret |-> <<>>]
            /\ hist' = Append(hist, Entry(dlast'))
            /\ UNCHANGED weights_dict

\* objs[id].get_weights(n), on a GaussianQuadrature
GetWeights ==
    \E id \in 1..Len(objs), n \in Args :
        /\ objs[id].cls = "GaussianQuadrature"
        /\ Len(hist) < MaxOps
        /\ LET r == get_weights(objs[id], n, weights_dict)
           IN  /\ dlast' = [op |-> "get_weights", key |-> "", id |-> id,
                            arg |-> n,
                            status |-> IF r.ok THEN "ok" ELSE "ValueError",
                            ret |-> r.ret]
               /\ weights_dict' = r.dict
        /\ hist' = Append(hist, Entry(dlast'))
        /\ UNCHANGED objs

\* Reading an attribute or property of objs[id]; one read may follow the
\* last of the MaxOps operations.
DoRead(id, name, r) ==
    /\ Len(hist) <= MaxOps
    /\ dlast' = [op |-> name, key |-> "", id |-> id, arg |-> 0,
                 status |-> r.status, ret |-> r.ret]
    /\ hist' = Append(hist, Entry(dlast'))
    /\ UNCHANGED <<objs, weights_dict>>

\* objs[id].x
ReadX == \E id \in 1..Len(objs) : DoRead(id, "x", BaseDistribution_x(objs[id]))
\* objs[id].y
ReadY == \E id \in 1..Len(objs) : DoRead(id, "y", BaseDistribution_y(objs[id]))
\* objs[id].dx
ReadDx ==
    \E id \in 1..Len(objs) : DoRead(id, "dx", BaseDistribution_dx(objs[id]))
\* objs[id].dy
ReadDy ==
    \E id \in 1..Len(objs) : DoRead(id, "dy", BaseDistribution_dy(objs[id]))

\* Seeded use of RandomDistribution: two instances, a few small generations.
MaxRandOps == 6    \* operations per run on RandomDistribution instances
RandIds == {1, 2}
RandArgs == {0, 1, 2}
Seeds == {1, 2}

\* d = RandomDistribution(seed) / RandomDistribution()
NewRandomDistribution ==
    \E seed \in {None} \cup {Some(sd) : sd \in Seeds}, entropy \in Entropy :
        /\ Len(hist) < MaxRandOps
        /\ Len(objs) + 1 \in RandIds
        /\ seed # None => entropy = 1
        /\ objs' = Append(objs, RandomDistribution_init(seed, entropy))
        /\ dlast' = [op |-> "new",
                     key |-> IF seed = None THEN "RandomDistribution()"
                             ELSE "RandomDistribution(seed)",
                     id |-> Len(objs) + 1,
                     arg |-> IF seed = None THEN 0 ELSE seed[1],
                     status |-> "ok", ret |-> <<>>]
        /\ hist' = Append(hist, Entry(dlast'))
        /\ UNCHANGED weights_dict

\* objs[id].generate_points(n), on a RandomDistribution
GenerateRandom ==
    \E id \in 1..Len(objs), n \in RandArgs :
        LET r == generate_points(objs[id], n)
        IN  /\ Len(hist) < MaxRandOps
            /\ objs[id].cls = "RandomDistribution"
            /\ objs' = [objs EXCEPT ![id] = r.self]
            /\ dlast' = [op |-> "generate_points", key |-> "", id |-> id,
                         arg |-> n,
                         status |-> IF r.ok THEN "ok" ELSE "ValueError",
                         ret |-> <<>>]
            /\ hist' = Append(hist, Entry(dlast'))
            /\ UNCHANGED weights_dict

----------------------------------------------------------------------------
(* The specifications.                                                      *)

vars == <<varVars, distVars>>

Init == VarInit /\ DistInit

Next ==
    \/ Construct /\ UNCHANGED distVars
    \/ ConstructLacking /\ UNCHANGED distVars
    \/ ConstructAgain /\ UNCHANGED distVars
    \/ ReadValue /\ UNCHANGED distVars
    \/ ReadBounds /\ UNCHANGED distVars
    \/ Update /\ UNCHANGED distVars
    \/ DirectSet /\ UNCHANGED distVars
    \/ ReplaceSurfaceGroup /\ UNCHANGED distVars

Spec == Init /\ [][Next]_vars

DistNext ==
    \/ CreateDistribution /\ UNCHANGED varVars
    \/ NewGaussianQuadrature /\ UNCHANGED varVars
    \/ GeneratePoints /\ UNCHANGED varVars
    \/ GetWeights /\ UNCHANGED varVars

DistSpec == Init /\ [][DistNext]_vars

\* One instance: its generations and the reads of its points.
AccessNext ==
    \/ objs = <<>> /\ CreateDistribution /\ UNCHANGED varVars
    \/ objs = <<>> /\ NewGaussianQuadrature /\ UNCHANGED varVars
    \/ GeneratePoints /\ UNCHANGED varVars
    \/ GetWeights /\ UNCHANGED varVars
    \/ ReadX /\ UNCHANGED varVars
    \/ ReadY /\ UNCHANGED varVars
    \/ ReadDx /\ UNCHANGED varVars
    \/ ReadDy /\ UNCHANGED varVars

AccessSpec == Init /\ [][AccessNext]_vars

RandNext ==
    \/ NewRandomDistribution /\ UNCHANGED varVars
    \/ GenerateRandom /\ UNCHANGED varVars

RandSpec == Init /\ [][RandNext]_vars

----------------------------------------------------------------------------
(* Properties of the Variable abstraction, checked under Spec.              *)

Behavior(h) == variables[h].variable_behavior
Bound(h) == Exists(h) /\ Truthy(Behavior(h))

\* The addressing parameters as the caller supplied them.
SurfaceOf(h) == variables[h].kwargs["surface_number"]
CoeffOf(h) == IF variables[h].type = "asphere_coeff"
              THEN variables[h].kwargs["coeff_number"] ELSE 0

\* The optic's own current value of the quantity h addresses.
Addressed(h) ==
    OpticQuantity(optic, heap, variables[h].type, SurfaceOf(h), CoeffOf(h))

\* The optic still holds the surface group it held when h was constructed.
SameSurfaceGroup(h) == Behavior(h).surfaces = optic.surface_group

\* What h.value would return or raise in the current state.
ValueNow(h) == Variable_value(variables[h], optic, heap)

\* C1: on an optic whose surface group has not been replaced since the
\* Variable was constructed, right after v.update(a) on a Variable of any of
\* the five types, v.value returns a and the optic's own stored quantity at
\* the addressed surface (and coefficient) is a, whatever updates and direct
\* writes came before.
C1_UpdateRoundTrip ==
    \A h \in Handles :
        (/\ last.op = "update" /\ last.var = h
         /\ variables[h].type \in VariableTypes
         /\ SameSurfaceGroup(h))
        => /\ last.status = "ok"
           /\ ValueNow(h) = [status |-> "ok",
                             ret |-> <<Some(last.arg.new_value)>>]
           /\ Addressed(h) = last.arg.new_value

\* C1 witness: an asphere_coeff Variable updated to 2 after a direct write.
C1_Witness ==
    /\ last.op = "update" /\ last.status = "ok"
    /\ variables[last.var].type = "asphere_coeff"
    /\ SurfaceOf(last.var) # CoeffOf(last.var)
    /\ SameSurfaceGroup(last.var)
    /\ last.arg.new_value = 2
    /\ directs = 1 /\ Len(heap) = 1

\* C2 (as claimed): in every reachable state, reading the value of a bound
\* Variable returns the optic's current value of the addressed quantity.
C2_NeverACache ==
    \A h \in Handles :
        Bound(h) => ValueNow(h) = [status |-> "ok",
                                   ret |-> <<Some(Addressed(h))>>]

\* C3: a Variable constructed with an unknown type_name is constructed
\* without an exception and has no behavior; value and update on it raise
\* ValueError, update calls no optic mutator and leaves the optic as it was,
\* and the Variable never becomes bound.
C3_State ==
    /\ (last.op = "construct" /\ last.arg.type_name \notin VariableTypes)
        => /\ last.status = "ok"
           /\ Exists(last.var)
           /\ Behavior(last.var) = NullBehavior
    /\ \A h \in Handles :
        (Exists(h) /\ variables[h].type \notin VariableTypes)
        => /\ ~Truthy(Behavior(h))
           /\ ValueNow(h).status = "ValueError"
           /\ \A a \in UpdateVals :
                Variable_update(variables[h], a) =
                    [status |-> "ValueError", calls |-> <<>>]
           /\ (last.var = h /\ last.op \in {"value", "update"})
                => last.status = "ValueError" /\ calls = <<>>

C3_Step ==
    /\ \A h \in Handles :
        (Exists(h) /\ ~Truthy(Behavior(h)))
            => (Exists(h)' /\ ~Truthy(Behavior(h)'))
    /\ (last'.op \in {"value", "update"} /\ last'.status = "ValueError")
        => (heap' = heap /\ optic' = optic)

C3_DeferredValidation == []C3_State /\ [][C3_Step]_vars

\* C3 witness: update on an unbound Variable has just failed, after a write
\* that changed the optic.
C3_Witness ==
    /\ last.op = "update" /\ last.status = "ValueError"
    /\ variables[last.var].type = "bogus_type"
    /\ heap # <<NewSurfaceGroup>>

\* The Variable that the same construction without the unrecognized
\* keywords yields (for a bound Variable, on the surface group it captured).
WithoutUnrecognized(h) ==
    LET var == variables[h]
        opt == IF Truthy(var.variable_behavior)
               THEN [surface_group |-> var.variable_behavior.surfaces]
               ELSE optic
    IN  Variable_init(opt, var.type, var.min_val, var.max_val,
                      Recognized(var.kwargs))

\* C4: a keyword outside the whitelist does not make construction raise, is
\* not set as an attribute, is warned about, and changes nothing else: the
\* Variable's attributes, behavior and bounds, hence its value, update and
\* bounds, are those of the same construction without that keyword.
C4_UnknownKeyword ==
    /\ (last.op = "construct" /\ WarnedKeys(last.arg.kw) # {})
        => /\ last.warned = DOMAIN last.arg.kw \ allowed_attributes
           /\ (last.status = "ok") =
                Variable_init(optic, last.arg.type_name, last.arg.min_val,
                              last.arg.max_val, Recognized(last.arg.kw)).ok
    /\ \A h \in Handles :
        (Exists(h) /\ DOMAIN variables[h].kwargs \ allowed_attributes # {})
        => LET ref == WithoutUnrecognized(h)
           IN  /\ DOMAIN variables[h].attrs =
                    DOMAIN variables[h].kwargs \cap allowed_attributes
               /\ ref.ok
               /\ ref.obj = [variables[h] EXCEPT !.kwargs = Recognized(@)]
               /\ ValueNow(h) = Variable_value(ref.obj, optic, heap)
               /\ Variable_bounds(variables[h]) = Variable_bounds(ref.obj)
               /\ \A a \in UpdateVals :
                    Variable_update(variables[h], a) =
                        Variable_update(ref.obj, a)

\* C4 witness: an index Variable constructed with foo=1 has been updated and
\* a second Variable without the keyword exists beside it.
C4_Witness ==
    /\ Exists("v") /\ Exists("w")
    /\ "foo" \in DOMAIN variables["v"].kwargs
    /\ variables["v"].type = "index"
    /\ last.op = "update" /\ last.var = "v" /\ last.status = "ok"

\* The optic mutator of each variable type.
MutatorOf(type_name) ==
    CASE type_name = "radius"        -> "set_radius"
      [] type_name = "conic"         -> "set_conic"
      [] type_name = "thickness"     -> "set_thickness"
      [] type_name = "index"         -> "set_index"
      [] type_name = "asphere_coeff" -> "set_asphere_coeff"

\* C5: update on a bound Variable makes exactly one optic mutator call, of
\* the mutator of its type, with new_value as given and the surface_number
\* (and coeff_number for asphere_coeff; never the wavelength), also when
\* new_value is outside (min_val, max_val); value, bounds and construction
\* call no mutator; bounds returns the (min_val, max_val) given at
\* construction, which no later operation changes.
C5_State ==
    /\ \A h \in Handles :
        (last.op = "update" /\ last.var = h /\ Bound(h))
        => /\ last.status = "ok"
           /\ calls = << [m |-> MutatorOf(variables[h].type),
                          args |-> IF variables[h].type = "asphere_coeff"
                                   THEN <<last.arg.new_value, SurfaceOf(h),
                                          CoeffOf(h)>>
                                   ELSE <<last.arg.new_value, SurfaceOf(h)>>] >>
    /\ last.op \in {"value", "bounds", "construct"} => calls = <<>>
    /\ last.op = "bounds"
        => last.ret = <<variables[last.var].min_val,
                        variables[last.var].max_val>>
    /\ (last.op = "construct" /\ last.status = "ok")
        => Variable_bounds(variables[last.var]) =
                <<last.arg.min_val, last.arg.max_val>>

C5_Step ==
    /\ \A h \in Handles :
        Exists(h) => /\ Exists(h)'
                     /\ Variable_bounds(variables[h])' =
                            Variable_bounds(variables[h])
    /\ last'.op \in {"value", "bounds", "construct"}
        => (heap' = heap /\ optic' = optic)

C5_PassThrough == []C5_State /\ [][C5_Step]_vars

\* C5 witness: an index Variable with bounds (1, 1) has been updated to 2.
C5_Witness ==
    /\ last.op = "update" /\ last.status = "ok"
    /\ variables[last.var].type = "index"
    /\ variables[last.var].min_val = Some(1)
    /\ variables[last.var].max_val = Some(1)
    /\ last.arg.new_value = 2
    /\ Addressed(last.var) = 2

\* The addressing parameters each recognized type requires.
RequiredKeys(type_name) ==
    CASE type_name = "index"         -> {"surface_number", "wavelength"}
      [] type_name = "asphere_coeff" -> {"surface_number", "coeff_number"}
      [] type_name \in {"radius", "conic", "thickness"} -> {"surface_number"}

\* The addressing parameters a behavior object holds.
HeldKeys(b) == DOMAIN b \ {"cls", "surfaces"}

\* C13: constructing a Variable of a recognized type succeeds exactly when
\* the keywords include every addressing parameter the type requires
\* (surface_number; also wavelength for index, coeff_number for
\* asphere_coeff); otherwise it raises TypeError at construction and no
\* Variable comes to exist, so every bound Variable holds all its addressing
\* parameters with the values given, and value and update never raise
\* TypeError; with an unknown type_name construction succeeds whatever
\* keywords are missing.
C13_State ==
    /\ (last.op = "construct" /\ last.arg.type_name \in VariableTypes)
        => /\ (last.status = "ok") =
                (RequiredKeys(last.arg.type_name) \subseteq DOMAIN last.arg.kw)
           /\ last.status \in {"ok", "TypeError"}
           /\ (last.status = "TypeError") => ~Exists(last.var)
    /\ (last.op = "construct" /\ last.arg.type_name \notin VariableTypes)
        => last.status = "ok" /\ Exists(last.var)
    /\ \A h \in Handles :
        Bound(h)
        => /\ variables[h].type \in VariableTypes
           /\ HeldKeys(Behavior(h)) = RequiredKeys(variables[h].type)
           /\ \A key \in RequiredKeys(variables[h].type) :
                /\ key \in DOMAIN variables[h].kwargs
                /\ Behavior(h)[key] = variables[h].kwargs[key]
    /\ last.op \in {"value", "update", "bounds"} => last.status # "TypeError"

C13_Step ==
    (last'.op = "construct" /\ last'.status = "TypeError")
        => (variables' = variables /\ heap' = heap /\ optic' = optic)

C13_MissingParameter == []C13_State /\ [][C13_Step]_vars

\* C13 witness: an index Variable without wavelength has just been refused
\* while no Variable exists.
C13_Witness ==
    /\ last.op = "construct" /\ last.status = "TypeError"
    /\ last.arg.type_name = "index"
    /\ DOMAIN last.arg.kw = {"surface_number"}
    /\ ~Exists("v")

----------------------------------------------------------------------------
(* Properties of the distribution engine, checked under DistSpec.           *)

IsStep == hist' # hist

\* The class each key of the factory stands for.
ClassOfKey(key) ==
    CASE key \in {"line_x", "positive_line_x"} -> "LineXDistribution"
      [] key \in {"line_y", "positive_line_y"} -> "LineYDistribution"
      [] key = "random"    -> "RandomDistribution"
      [] key = "uniform"   -> "UniformDistribution"
      [] key = "hexapolar" -> "HexagonalDistribution"
      [] key = "cross"     -> "CrossDistribution"
      [] key = "ring"      -> "RingDistribution"

NineKeys == {"line_x", "line_y", "positive_line_x", "positive_line_y",
             "random", "uniform", "hexapolar", "cross", "ring"}

\* C6: create_distribution(key) returns, for each of the nine keys, a new
\* instance of the mapped class (the instances of earlier calls stay as they
\* are), positive_only being set exactly for the two positive_* keys, with
\* no points generated; for every other key it raises ValueError and
\* creates nothing.
C6_State ==
    dlast.op = "create" =>
        IF dlast.key \in NineKeys
        THEN /\ dlast.status = "ok"
             /\ dlast.id = Len(objs)
             /\ objs[dlast.id].cls = ClassOfKey(dlast.key)
             /\ objs[dlast.id].pts = None
             /\ ("positive_only" \in DOMAIN objs[dlast.id])
                    = (objs[dlast.id].cls \in {"LineXDistribution",
                                               "LineYDistribution"})
             /\ ("positive_only" \in DOMAIN objs[dlast.id])
                    => (objs[dlast.id].positive_only
                            = (dlast.key \in {"positive_line_x",
                                              "positive_line_y"}))
        ELSE dlast.status = "ValueError" /\ dlast.id = 0

C6_Step ==
    (IsStep /\ dlast'.op = "create")
        => IF dlast'.status = "ok"
           THEN Len(objs') = Len(objs) + 1 /\ SubSeq(objs', 1, Len(objs)) = objs
           ELSE objs' = objs

C6_Factory == []C6_State /\ [][C6_Step]_vars

\* C6 witness: a second instance has just been created, by positive_line_y,
\* while the first one already holds points.
C6_Witness ==
    /\ dlast.op = "create" /\ dlast.key = "positive_line_y"
    /\ Len(objs) = 2
    /\ objs[1].pts # None

\* C7: on a GaussianQuadrature, generate_points and get_weights succeed for
\* exactly the ring counts 1..6 and raise ValueError for all others; a
\* failed generate_points leaves the instance (x and y) as it was.
C7_State ==
    (/\ dlast.op \in {"generate_points", "get_weights"}
     /\ objs[dlast.id].cls = "GaussianQuadrature")
    => /\ dlast.status = (IF dlast.arg \in 1..6 THEN "ok" ELSE "ValueError")
       /\ (dlast.op = "generate_points" /\ dlast.status = "ok")
            => objs[dlast.id].pts # None

C7_Step ==
    (IsStep /\ dlast'.op = "generate_points" /\ dlast'.status = "ValueError")
        => objs' = objs

C7_RingCount == []C7_State /\ [][C7_Step]_vars

\* C7 witness: generate_points(7) has just failed on an instance that holds
\* the points of an earlier successful generation.
C7_Witness ==
    /\ dlast.op = "generate_points" /\ dlast.status = "ValueError"
    /\ dlast.arg = 7
    /\ objs[dlast.id].pts # None

\* C8: get_weights(r) for r in 1..6 returns the table row of r with every
\* entry times 6 (symmetric) or times 2 (otherwise), r entries long,
\* whatever calls were made before; for r = 1 that is [3.0] and [1.0].
C8_Weights ==
    (dlast.op = "get_weights" /\ dlast.status = "ok")
    => LET f == IF objs[dlast.id].is_symmetric THEN 6 ELSE 2
       IN  /\ dlast.arg \in 1..6
           /\ Len(dlast.ret) = dlast.arg
           /\ \A i \in 1..dlast.arg :
                dlast.ret[i] = f * WeightsTable[dlast.arg][i]
           /\ dlast.arg = 1 =>
                dlast.ret = (IF objs[dlast.id].is_symmetric
                             THEN <<3000000>> ELSE <<1000000>>)

\* C8 witness: the same get_weights(3) has succeeded twice in a row on one
\* symmetric instance.
C8_Witness ==
    /\ Len(hist) = 3
    /\ hist[2].op = "get_weights" /\ hist[2].status = "ok" /\ hist[2].arg = 3
    /\ hist[3] = hist[2]
    /\ objs[hist[3].id].is_symmetric

\* The indices in hist of the successful generate_points calls on id.
Generations(id) ==
    {i \in 1..Len(hist) : /\ hist[i].op = "generate_points"
                          /\ hist[i].id = id
                          /\ hist[i].status = "ok"}
SetMax(S) == CHOOSE m \in S : \A k \in S : k <= m
\* The argument of the last successful generate_points on id.
LastArg(id) == hist[SetMax(Generations(id))].arg

X(id) == objs[id].pts[1].x
Y(id) == objs[id].pts[1].y

\* The number of points C9 gives for a class and the last argument n.
ExpectedCount(o, n) ==
    CASE o.cls \in {"LineXDistribution", "LineYDistribution",
                    "RandomDistribution", "RingDistribution"} -> n
      [] o.cls = "CrossDistribution"     -> 2 * n
      [] o.cls = "HexagonalDistribution" -> 1 + 3 * n * (n + 1)
      [] o.cls = "GaussianQuadrature"    -> IF o.is_symmetric THEN n ELSE 3 * n

\* Ring i of n: the indices C9 gives it, after the centre, rings in order.
RingRange(i) == (2 + 3 * i * (i - 1))..(1 + 3 * i * (i + 1))

IsZero(v) == v.t = "rat" /\ v.n = 0

\* C9: an instance holds points exactly when a generate_points on it has
\* succeeded, and then x and y are the output of the last such call alone
\* (what the call gives on an instance without points), of equal length N:
\* n for LineX, LineY, Random, Ring; 2n for Cross, first n with x = 0, last
\* n with y = 0; 1 + 3n(n+1) for Hexagonal, the centre first, then ring i
\* = 1..n with 6i points; n (symmetric) or 3n for GaussianQuadrature.
C9_Counts ==
    \A id \in 1..Len(objs) :
        LET o == objs[id]
        IN  IF Generations(id) = {} THEN o.pts = None
            ELSE LET n == LastArg(id)
                 IN  /\ o.pts # None
                     /\ Len(X(id)) = Len(Y(id))
                     /\ o.cls # "UniformDistribution"
                            => Len(X(id)) = ExpectedCount(o, n)
                     /\ o.cls # "RandomDistribution"
                            => o.pts = generate_points(
                                         [o EXCEPT !.pts = None], n).self.pts
                     /\ o.cls = "CrossDistribution"
                            => /\ \A e \in 1..n : IsZero(X(id)[e])
                               /\ \A e \in (n + 1)..(2 * n) : IsZero(Y(id)[e])
                     /\ o.cls = "HexagonalDistribution"
                            => /\ IsZero(X(id)[1]) /\ IsZero(Y(id)[1])
                               /\ \A i \in 1..n : \A e \in RingRange(i) :
                                    /\ X(id)[e].t = "polar"
                                    /\ X(id)[e].n * n = i * X(id)[e].d

\* C9 witness: a Hexagonal instance regenerated with 2 rings after 3 rings.
C9_Witness ==
    /\ Len(objs) = 1 /\ objs[1].cls = "HexagonalDistribution"
    /\ Len(hist) = 3
    /\ hist[2].op = "generate_points" /\ hist[2].arg = 3
    /\ hist[3].op = "generate_points" /\ hist[3].arg = 2
    /\ Len(X(1)) = 19

\* The j-th (0-based) of n linearly spaced coordinates on [-1, 1].
GridCoord(j, n) == IF n = 1 THEN Rat(-1, 1) ELSE Rat(2 * j - (n - 1), n - 1)

\* x**2 + y**2 <= 1 for two grid coordinates (of one denominator).
GridInDisk(gx, gy) == gx.n * gx.n + gy.n * gy.n <= gx.d * gx.d

\* x**2 + y**2 <= 1 for a point r*cos(a), r*sin(a) or a rational point.
PointInDisk(px, py) ==
    IF px.t = "polar"
    THEN /\ py.t = "polar" /\ px.f = "cos" /\ py.f = "sin"
         /\ px.n = py.n /\ px.d = py.d /\ px.k = py.k /\ px.m = py.m
         /\ px.n * px.n <= px.d * px.d
    ELSE /\ px.t = "rat" /\ py.t = "rat"
         /\ px.n * px.n * py.d * py.d + py.n * py.n * px.d * px.d
                <= px.d * px.d * py.d * py.d

----------------------------------------------------------------------------
(* Properties of RandomDistribution, checked under RandSpec.                *)

\* The arguments of the successful generate_points calls on id, in order.
ArgsOf(id) ==
    LET sel == SelectSeq(hist, LAMBDA e : /\ e.op = "generate_points"
                                          /\ e.id = id
                                          /\ e.status = "ok")
    IN  [k \in 1..Len(sel) |-> sel[k].arg]

\* The seed id was constructed with, None if it was constructed without.
SeedOf(id) ==
    LET e == CHOOSE e \in {hist[k] : k \in 1..Len(hist)} :
                    e.op = "new" /\ e.id = id
    IN  IF e.key = "RandomDistribution(seed)" THEN Some(e.arg) ELSE None

\* The sum of the first k entries of s.
RECURSIVE SumTo(_, _)
SumTo(s, k) == IF k = 0 THEN 0 ELSE s[k] + SumTo(s, k - 1)

\* sqrt(r) * f(theta), r and theta the ri-th and ti-th draws of the stream
\* seeded with sd.
Drawn(f, sd, ri, ti) ==
    [t |-> "rand", f |-> f, src |-> <<"seed", sd>>, ri |-> ri, ti |-> ti]

\* C11: two RandomDistribution instances constructed with the same seed
\* that have been given the same sequence of generate_points arguments hold
\* identical x and y; and on one seeded instance, after calls with arguments
\* n_1..n_k, point i of x and y is computed from draws 2(n_1+..+n_(k-1)) + i
\* (r) and 2(n_1+..+n_(k-1)) + n_k + i (theta) of the seed's stream: each
\* call continues where the previous one stopped, r values first, then
\* theta values, and a repeated call does not restart the stream.
C11_State ==
    /\ \A i \in 1..Len(objs), j \in 1..Len(objs) :
        (/\ SeedOf(i) # None /\ SeedOf(i) = SeedOf(j)
         /\ ArgsOf(i) = ArgsOf(j))
        => objs[i].pts = objs[j].pts
    /\ \A id \in 1..Len(objs) :
        (SeedOf(id) # None /\ ArgsOf(id) # <<>>)
        => LET s == ArgsOf(id)
               n == s[Len(s)]
               p == 2 * SumTo(s, Len(s) - 1)
           IN  /\ X(id) = [i \in 1..n |->
                            Drawn("cos", SeedOf(id)[1], p + i, p + n + i)]
               /\ Y(id) = [i \in 1..n |->
                            Drawn("sin", SeedOf(id)[1], p + i, p + n + i)]

\* A repeated generate_points(n), n > 0, gives points other than the ones
\* the instance held.
C11_Step ==
    (/\ IsStep /\ dlast'.op = "generate_points" /\ dlast'.arg > 0
     /\ objs[dlast'.id].pts # None)
        => objs'[dlast'.id].pts # objs[dlast'.id].pts

C11_SeededStream == []C11_State /\ [][C11_Step]_vars

\* C11 witness: two instances with seed 1 have each been given
\* generate_points(2) twice.
C11_Witness ==
    /\ Len(objs) = 2
    /\ SeedOf(1) = Some(1) /\ SeedOf(2) = Some(1)
    /\ ArgsOf(1) = <<2, 2>> /\ ArgsOf(2) = <<2, 2>>
    /\ X(1) = X(2) /\ Y(1) = Y(2)
    /\ X(1)[1].ri = 5

----------------------------------------------------------------------------
(* Properties of the point attributes, checked under AccessSpec.            *)

ReadOps == {"x", "y", "dx", "dy"}

\* r is a - b.
IsDifference(r, a, b) ==
    IF a.t = "rat" /\ b.t = "rat"
    THEN r.t = "rat" /\ r.d # 0
         /\ r.n * a.d * b.d = (a.n * b.d - b.n * a.d) * r.d
    ELSE r = [t |-> "sub", a |-> a, b |-> b]

\* What the last read of a sequence of coordinates pts must have given for
\* the difference of its first two entries.
DifferenceRead(pts) ==
    IF Len(pts) >= 2
    THEN dlast.status = "ok" /\ IsDifference(dlast.ret[1], pts[2], pts[1])
    ELSE dlast.status \notin {"ok", "AttributeError"}

\* C12: reading x, y, dx or dy of an instance on which generate_points has
\* never succeeded fails; once it has succeeded x and y read as the points
\* held, which are (for the classes without a generator) those of the most
\* recent successful generation; dx and dy read as x[1] - x[0] and
\* y[1] - y[0] of them (signed, first two points in generation order) when
\* there are at least 2 points and fail when there are fewer; and only a
\* successful generate_points on an instance changes its x or y: reads,
\* get_weights, constructions and failed generations leave them alone.
C12_State ==
    dlast.op \in ReadOps
    => LET id == dlast.id
       IN  IF Generations(id) = {}
           THEN dlast.status = "AttributeError" /\ objs[id].pts = None
           ELSE /\ objs[id].cls # "RandomDistribution"
                    => objs[id].pts =
                        generate_points(objs[id], LastArg(id)).self.pts
                /\ Len(X(id)) = Len(Y(id))
                /\ dlast.op = "x"
                    => dlast.status = "ok" /\ dlast.ret = <<X(id)>>
                /\ dlast.op = "y"
                    => dlast.status = "ok" /\ dlast.ret = <<Y(id)>>
                /\ dlast.op = "dx" => DifferenceRead(X(id))
                /\ dlast.op = "dy" => DifferenceRead(Y(id))

C12_Step ==
    /\ (IsStep /\ dlast'.op \in ReadOps) => objs' = objs
    /\ \A id \in 1..Len(objs) :
        objs'[id].pts # objs[id].pts
        => /\ dlast'.op = "generate_points" /\ dlast'.id = id
           /\ dlast'.status = "ok"

C12_GenerateFirst == []C12_State /\ [][C12_Step]_vars

\* C12 witness: dx has been read on a line_x instance after two
\* generations with different arguments, the later with n = 5: 2 / 4.
C12_Witness ==
    /\ dlast.op = "dx" /\ dlast.status = "ok"
    /\ objs[dlast.id].cls = "LineXDistribution"
    /\ Cardinality(Generations(dlast.id)) = 2
    /\ \E i \in Generations(dlast.id) : hist[i].arg = 3
    /\ LastArg(dlast.id) = 5
    /\ dlast.ret[1].n * 4 = 2 * dlast.ret[1].d
    /\ dlast.ret[1].d # 0

============================================================================
